---------------------------- MODULE Spec2Model ----------------------------
(***************************************************************************)
(* WmsTestHarness.py: a driver (main) that submits `requests` GetMap jobs   *)
(* to a multiprocessing.Pool of `processes` workers, each job running       *)
(* get_map(url, results_list), then joins the pool and writes a CSV report. *)
(*                                                                          *)
(* Representation choices                                                   *)
(*  - Times are integers counting microseconds.  A Python float holding     *)
(*    s seconds is represented by the integer s * 10^6, so the value        *)
(*    float(td.microseconds) / 1000000.0 is represented by td.microseconds. *)
(*  - avg_seconds, a float quotient, is kept as an exact fraction           *)
(*    [num, den] in the same unit.                                          *)
(*  - A request URL is represented by the values that vary between          *)
(*    requests: the BBOX extent and the pixel size sent.                    *)
(*  - Coordinates and map widths are integers in a model unit; a draw of    *)
(*    random.uniform(a, b) is any integer point between a and b.  The       *)
(*    table tile_pixel_sizes keeps its shape (each level half the one       *)
(*    before) on three levels, in the same unit.                            *)
(*  - A Python list [a, b, c] is the tuple <<a, b, c>>.                     *)
(***************************************************************************)
EXTENDS Integers, Sequences, FiniteSets, TLC

\* ---------------------------------------------------------------- bounds
\* Largest request count and worker count explored.
MaxRequests == 3
MaxProcesses == 2
\* Largest request count explored where each request can draw two extents.
MaxDegenerateRequests == 2

\* -------------------------------------------------- program constants
MicrosPerSecond == 1000000
TileSize == 256
DefaultImageWidth == 1024
DefaultImageHeight == 768

\* tile_pixel_sizes: model units per pixel at tile levels 0, 1, 2.
tile_pixel_sizes == <<4, 2, 1>>

\* A parameter setting for tile mode: one tile level, and a box [minX, minY,
\* maxX, maxY] exactly one tile wide and high, so that one extent can be drawn.
TileBox == <<300, -500, 556, -244>>

\* A parameter setting for non-tile mode: one map width, and a box exactly
\* one map wide and high (the map is 8 x 6 at the 1024 x 768 image ratio).
MapBox == <<40, -30, 48, -24>>

\* Bounding-box tables explored by the pipeline, as sequences of boxes
\* keyed 1..n: the empty table and a one-box table (the shipped table has
\* keys 1..7).
BoundingBoxTables(box) == {<<>>, <<box>>}

\* Parameter settings explored by the pipeline specification: tile mode at
\* level 2 and non-tile mode with map width 8, each with the empty table and
\* with a one-box table.
PipelineParameters ==
    [map_tiles : {TRUE}, min_tile_level : {2}, max_tile_level : {2},
     min_map_width : {8}, max_map_width : {8},
     max_bounding_boxes : BoundingBoxTables(TileBox)]
    \cup
    [map_tiles : {FALSE}, min_tile_level : {2}, max_tile_level : {2},
     min_map_width : {8}, max_map_width : {8},
     max_bounding_boxes : BoundingBoxTables(MapBox)]

\* Wall-clock durations of one fetch, in microseconds: the two timestamps
\* equal, a sub-second fetch, and a fetch longer than one second.
Durations == {0, 250000, 1250000}

\* Body lengths a successful read() returns.
ImageLens == {512}

VARIABLES
    requests,           \* configured number of GetMap requests
    processes,          \* configured number of worker processes
    map_tiles,          \* tile-mode flag
    min_tile_level,     \* tile levels drawn in tile mode
    max_tile_level,
    min_map_width,      \* map widths drawn in non-tile mode
    max_map_width,
    map_image_width,    \* module global, rewritten by main() in tile mode
    map_image_height,
    max_bounding_boxes, \* the bounding-box table: boxes keyed 1..n
    pc,                 \* position of the driver in main()
    i,                  \* loop index of main(): number of jobs submitted
    pool_workers,       \* worker processes the pool holds
    taskqueue,          \* jobs submitted and not yet picked up by a worker
    running,            \* jobs inside get_map, blocked in urlopen().read()
    results_list,       \* the manager list shared by all workers
    log_file,           \* rows written to the CSV file
    descriptors,        \* history: for each job submitted, what the loop body drew
    fetched,            \* history: for each job that has ended, how its fetch ended
    owner               \* history: for each record of results_list, the job that
                        \* appended it and the wall-clock duration of its fetch

vars == <<requests, processes, map_tiles, min_tile_level, max_tile_level,
          min_map_width, max_map_width, map_image_width, map_image_height,
          max_bounding_boxes, pc, i, pool_workers, taskqueue, running,
          results_list, log_file, descriptors, fetched, owner>>

config == <<requests, processes, map_tiles, min_tile_level, max_tile_level,
            min_map_width, max_map_width, max_bounding_boxes>>

NoFile == <<"no file">>

\* Parameter settings explored by the sampler specification.  Tile mode:
\* levels 1 and 2 (tiles 512 and 256 wide) in a 600 x 400 box and a 300 x 520
\* box.  Non-tile mode: widths 4, 8 and 12 (heights 3, 6 and 9) in a 10 x 8
\* box and a 13 x 10 box.  Each setting has boxes a map fits in and boxes it
\* does not fit in.
SamplerParameters ==
    { [map_tiles |-> TRUE, min_tile_level |-> 1, max_tile_level |-> 2,
       min_map_width |-> 4, max_map_width |-> 12,
       max_bounding_boxes |-> << <<300, -500, 900, -100>>, <<-700, 200, -400, 720>> >>],
      [map_tiles |-> FALSE, min_tile_level |-> 1, max_tile_level |-> 2,
       min_map_width |-> 4, max_map_width |-> 12,
       max_bounding_boxes |-> << <<40, -30, 50, -22>>, <<-20, 5, -7, 15>> >>] }

\* The parameter setting of the specification with a deterministic fetch:
\* tile mode at level 2 with three boxes of one tile each, so that three
\* different URLs can be requested.
StubParameters ==
    { [map_tiles |-> TRUE, min_tile_level |-> 2, max_tile_level |-> 2,
       min_map_width |-> 8, max_map_width |-> 8,
       max_bounding_boxes |->
           << TileBox, <<-700, 200, -444, 456>>, <<1100, 1100, 1356, 1356>> >>] }

\* Parameter settings in which the map does not fit the box, so that the
\* range of line 119 is inverted.  Tile mode: a 256 tile in a 250 x 250 box.
\* Non-tile mode: an 8 x 6 map in a 7 x 6 box.
DegenerateParameters ==
    { [map_tiles |-> TRUE, min_tile_level |-> 2, max_tile_level |-> 2,
       min_map_width |-> 8, max_map_width |-> 8,
       max_bounding_boxes |-> << <<10, 10, 260, 260>> >>],
      [map_tiles |-> FALSE, min_tile_level |-> 2, max_tile_level |-> 2,
       min_map_width |-> 8, max_map_width |-> 8,
       max_bounding_boxes |-> << <<40, -30, 47, -24>> >>] }

\* The module parameters of lines 36-73 set to p, and main() not yet entered.
Start(p) ==
    /\ map_tiles = p.map_tiles
    /\ min_tile_level = p.min_tile_level
    /\ max_tile_level = p.max_tile_level
    /\ min_map_width = p.min_map_width
    /\ max_map_width = p.max_map_width
    /\ max_bounding_boxes = p.max_bounding_boxes
    /\ map_image_width = DefaultImageWidth
    /\ map_image_height = DefaultImageHeight
    /\ pc = "start"
    /\ i = 0
    /\ pool_workers = 0
    /\ taskqueue = <<>>
    /\ running = {}
    /\ results_list = <<>>
    /\ log_file = NoFile
    /\ descriptors = <<>>
    /\ fetched = {}
    /\ owner = <<>>

Init ==
    /\ requests \in 0..MaxRequests
    /\ processes \in 0..MaxProcesses
    /\ \E p \in PipelineParameters : Start(p)

\* ------------------------------------------------------------ helpers

\* Mutant of Uniform: no point is drawn when b is below a.
UniformOrdered(a, b) == a..b

\* random.uniform(a, b): a + (b - a) * random(), a point between a and b
\* whichever of the two is the larger.
Uniform(a, b) == IF a <= b THEN a..b ELSE b..a

\* map_width and map_height of lines 110-116 for a drawn tile level.
TileWidth(tile_level) == TileSize * tile_pixel_sizes[tile_level + 1]

\* map_height of line 116: map_width * map_ratio, map_ratio being
\* float(map_image_height) / float(map_image_width) of line 89.
MapHeight(map_width) == (map_width * map_image_height) \div map_image_width

\* The map widths line 115 can draw, kept to those whose height is a whole
\* number of model units.
MapWidths ==
    {w \in Uniform(min_map_width, max_map_width) :
        (w * map_image_height) % map_image_width = 0}

\* Mutant of SnapToGrid: the coordinate is snapped to multiples of the tile's
\* pixel size instead of the tile's width in map units.
SnapToPixels(x, size) == (x \div TileSize) * TileSize

\* Lines 124-125: math.floor(x / size) * size.
SnapToGrid(x, size) == (x \div size) * size

\* Lines 118-129 for a drawn box, level (-1 in non-tile mode), width and
\* height and drawn left and bottom: the request descriptor.
Descriptor(max_bbox_num, tile_level, map_width, map_height, left0, bottom0) ==
    LET left == IF map_tiles THEN SnapToGrid(left0, map_width) ELSE left0
        bottom == IF map_tiles THEN SnapToGrid(bottom0, map_height) ELSE bottom0
    IN [max_bbox_num |-> max_bbox_num, tile_level |-> tile_level,
        map_width |-> map_width, map_height |-> map_height,
        left |-> left, bottom |-> bottom,
        right |-> left + map_width, top |-> bottom + map_height]

\* Lines 118-120 and on: the descriptors that can be drawn in box
\* max_bbox_num with the given level, width and height.
DescriptorsIn(max_bbox_num, tile_level, map_width, map_height) ==
    LET max_bbox == max_bounding_boxes[max_bbox_num]
    IN {Descriptor(max_bbox_num, tile_level, map_width, map_height, left0, bottom0) :
          left0 \in Uniform(max_bbox[1], max_bbox[3] - map_width),
          bottom0 \in Uniform(max_bbox[2], max_bbox[4] - map_height)}

\* Lines 105-129: every request descriptor one loop iteration can draw.
Samples ==
    UNION {IF map_tiles
           THEN UNION {DescriptorsIn(n, lvl, TileWidth(lvl), TileWidth(lvl)) :
                          lvl \in min_tile_level..max_tile_level}
           ELSE UNION {DescriptorsIn(n, -1, w, MapHeight(w)) : w \in MapWidths} :
           n \in 1..Len(max_bounding_boxes)}

\* The request URL of lines 132-137, reduced to what varies between
\* requests: the BBOX extent and the pixel size.
MapUrl(desc) ==
    [BBOX |-> <<desc.left, desc.bottom, desc.right, desc.top>>,
     WIDTH |-> map_image_width, HEIGHT |-> map_image_height]

\* timedelta.microseconds of a non-negative timedelta of d microseconds: the
\* sub-second field only (whole seconds live in .seconds and .days).
TimedeltaMicroseconds(d) == d % MicrosPerSecond

\* elapsed_seconds of get_map, in microsecond units.
ElapsedSeconds(d) == TimedeltaMicroseconds(d)

\* The record get_map appends: [elapsed_seconds, image_len, url].
ResultRecord(d, image_len, url) == <<ElapsedSeconds(d), image_len, url>>

\* ------------------------------------------------------------- driver

\* main(), lines 79-101, when Pool(processes) succeeds.
CreatePool ==
    /\ pc = "start"
    /\ processes >= 1
    /\ IF map_tiles
         THEN map_image_width' = TileSize /\ map_image_height' = TileSize
         ELSE UNCHANGED <<map_image_width, map_image_height>>
    /\ pool_workers' = processes
    /\ pc' = "loop"
    /\ UNCHANGED <<config, descriptors, i, taskqueue, running, results_list, log_file, fetched, owner>>

\* Mutant of CreatePoolRaises: Pool accepts a worker count below 1.
CreatePoolUnchecked ==
    /\ pc = "start"
    /\ processes < 1
    /\ IF map_tiles
         THEN map_image_width' = TileSize /\ map_image_height' = TileSize
         ELSE UNCHANGED <<map_image_width, map_image_height>>
    /\ pool_workers' = processes
    /\ pc' = "loop"
    /\ UNCHANGED <<config, descriptors, i, taskqueue, running, results_list, log_file, fetched, owner>>

\* main(), lines 79-95, when Pool(processes) raises ValueError
\* ("Number of processes must be at least 1"): the script ends with a traceback.
CreatePoolRaises ==
    /\ pc = "start"
    /\ processes < 1
    /\ IF map_tiles
         THEN map_image_width' = TileSize /\ map_image_height' = TileSize
         ELSE UNCHANGED <<map_image_width, map_image_height>>
    /\ pc' = "crashed"
    /\ UNCHANGED <<config, descriptors, i, pool_workers, taskqueue, running, results_list,
                   log_file, fetched, owner>>

\* Mutant of Submit: the driver hands the job over with nothing sampled and no
\* URL built, leaving both to the worker that takes it.
SubmitDeferred ==
    /\ pc = "loop"
    /\ i < requests
    /\ max_bounding_boxes # <<>>
    /\ taskqueue' = Append(taskqueue,
           [job |-> i + 1, url |-> [BBOX |-> <<0, 0, 0, 0>>, WIDTH |-> 0, HEIGHT |-> 0]])
    /\ i' = i + 1
    /\ UNCHANGED <<config, descriptors, map_image_width, map_image_height, pc, pool_workers,
                   running, results_list, log_file, fetched, owner>>

\* One iteration of the loop of lines 104-140: draw a bounding box, build the
\* URL, hand the job to the pool.
Submit ==
    /\ pc = "loop"
    /\ i < requests
    /\ max_bounding_boxes # <<>>
    /\ \E desc \in Samples :
           /\ taskqueue' = Append(taskqueue, [job |-> i + 1, url |-> MapUrl(desc)])
           /\ descriptors' = Append(descriptors, desc)
    /\ i' = i + 1
    /\ UNCHANGED <<config, map_image_width, map_image_height, pc, pool_workers,
                   running, results_list, log_file, fetched, owner>>

\* The same iteration with an empty table: random.randint(1, 0) raises
\* ValueError at line 106, before apply_async; the script ends and the
\* daemonic workers end with it.
SubmitRaises ==
    /\ pc = "loop"
    /\ i < requests
    /\ max_bounding_boxes = <<>>
    /\ pc' = "crashed"
    /\ pool_workers' = 0
    /\ taskqueue' = <<>>
    /\ running' = {}
    /\ UNCHANGED <<config, descriptors, map_image_width, map_image_height, i, results_list,
                   log_file, fetched, owner>>

\* Mutant of ClosePool: after the loop the driver puts the image size back to
\* the values of the parameter block.
ClosePoolResetsImageSize ==
    /\ pc = "loop"
    /\ i >= requests
    /\ map_image_width' = DefaultImageWidth
    /\ map_image_height' = DefaultImageHeight
    /\ pc' = "join"
    /\ UNCHANGED <<config, descriptors, i, pool_workers,
                   taskqueue, running, results_list, log_file, fetched, owner>>

\* Loop exit and pool.close(), line 142; the driver then blocks in pool.join().
ClosePool ==
    /\ pc = "loop"
    /\ i >= requests
    /\ pc' = "join"
    /\ UNCHANGED <<config, descriptors, map_image_width, map_image_height, i, pool_workers,
                   taskqueue, running, results_list, log_file, fetched, owner>>

\* Mutant of JoinPool: join returns without waiting for the workers.
JoinPoolNoWait ==
    /\ pc = "join"
    /\ pc' = "report"
    /\ UNCHANGED <<config, descriptors, map_image_width, map_image_height, i, pool_workers,
                   taskqueue, running, results_list, log_file, fetched, owner>>

\* Mutant of JoinPool: join returns only once one record per request is there.
JoinPoolAwaitsRecords ==
    /\ pc = "join"
    /\ taskqueue = <<>>
    /\ running = {}
    /\ Len(results_list) = requests
    /\ pc' = "report"
    /\ UNCHANGED <<config, descriptors, map_image_width, map_image_height, i, pool_workers,
                   taskqueue, running, results_list, log_file, fetched, owner>>

\* pool.join(), line 143, returns: the pool is closed and every submitted job
\* has been taken by a worker and has returned.
JoinPool ==
    /\ pc = "join"
    /\ taskqueue = <<>>
    /\ running = {}
    /\ pc' = "report"
    /\ UNCHANGED <<config, descriptors, map_image_width, map_image_height, i, pool_workers,
                   taskqueue, running, results_list, log_file, fetched, owner>>

\* ------------------------------------------------------------ workers

\* Mutant of Dispatch: a job starts whether or not a worker is free.
DispatchUnbounded ==
    /\ taskqueue # <<>>
    /\ running' = running \cup {Head(taskqueue)}
    /\ taskqueue' = Tail(taskqueue)
    /\ UNCHANGED <<config, descriptors, map_image_width, map_image_height, pc, i, pool_workers,
                   results_list, log_file, fetched, owner>>

\* A free worker of Pool(processes) takes the oldest queued job and enters
\* get_map: lines 194-200, up to the blocking urlopen(request).read().
Dispatch ==
    /\ taskqueue # <<>>
    /\ Cardinality(running) < pool_workers
    /\ running' = running \cup {Head(taskqueue)}
    /\ taskqueue' = Tail(taskqueue)
    /\ UNCHANGED <<config, descriptors, map_image_width, map_image_height, pc, i, pool_workers,
                   results_list, log_file, fetched, owner>>

\* Mutant of FetchRaisesURLError: after URLError the job stays in get_map and
\* requests the URL again.
FetchRaisesURLErrorRetries(t, d) ==
    /\ t \in running
    /\ fetched' = fetched \cup {[job |-> t.job, kind |-> "URLError"]}
    /\ UNCHANGED <<config, descriptors, map_image_width, map_image_height, pc, i,
                   pool_workers, taskqueue, running, results_list, log_file, owner>>

\* Mutant of Finish: the append is not synchronised; while another job is
\* inside get_map the new record replaces the last one instead of following it.
FinishUnsynchronised(t, kind, d, image_len) ==
    /\ results_list' =
           IF running \ {t} # {} /\ results_list # <<>>
           THEN [results_list EXCEPT ![Len(results_list)] = ResultRecord(d, image_len, t.url)]
           ELSE Append(results_list, ResultRecord(d, image_len, t.url))
    /\ owner' =
           IF running \ {t} # {} /\ results_list # <<>>
           THEN [owner EXCEPT ![Len(owner)] = [job |-> t.job, wall |-> d]]
           ELSE Append(owner, [job |-> t.job, wall |-> d])
    /\ fetched' = fetched \cup {[job |-> t.job, kind |-> kind]}
    /\ running' = running \ {t}
    /\ UNCHANGED <<config, descriptors, map_image_width, map_image_height, pc, i,
                   pool_workers, taskqueue, log_file>>

\* The rest of get_map once the fetch has returned normally or has raised
\* URLError (which the except clause of line 202 handles): lines 201-209.
\* image_len is len(image), or the initial 0 of line 195 after URLError.
Finish(t, kind, d, image_len) ==
    /\ results_list' = Append(results_list, ResultRecord(d, image_len, t.url))
    /\ owner' = Append(owner, [job |-> t.job, wall |-> d])
    /\ fetched' = fetched \cup {[job |-> t.job, kind |-> kind]}
    /\ running' = running \ {t}
    /\ UNCHANGED <<config, descriptors, map_image_width, map_image_height, pc, i, pool_workers,
                   taskqueue, log_file>>

\* urlopen(request).read() returns the body.
FetchReturns(t, d, image_len) ==
    /\ t \in running
    /\ Finish(t, "ok", d, image_len)

\* urlopen raises urllib2.URLError (connection refused, unknown host, or its
\* subclass HTTPError for a non-success status): caught at line 202.
FetchRaisesURLError(t, d) ==
    /\ t \in running
    /\ Finish(t, "URLError", d, 0)

\* Mutant of FetchRaisesOther: the exception ends the pool and the driver.
FetchRaisesOtherFatal(t) ==
    /\ t \in running
    /\ fetched' = fetched \cup {[job |-> t.job, kind |-> "other"]}
    /\ running' = {}
    /\ taskqueue' = <<>>
    /\ pool_workers' = 0
    /\ pc' = "crashed"
    /\ UNCHANGED <<config, descriptors, map_image_width, map_image_height, i,
                   results_list, log_file, owner>>

\* urlopen(request).read() raises an exception that is no URLError: a
\* socket.timeout or socket.error while the response is read, or
\* httplib.BadStatusLine / IncompleteRead for a malformed response.  Line 202
\* does not catch it, so get_map ends before lines 206-209; the pool worker
\* stores the exception in the job's AsyncResult, which line 140 discards, and
\* goes on to its next job.
FetchRaisesOther(t) ==
    /\ t \in running
    /\ fetched' = fetched \cup {[job |-> t.job, kind |-> "other"]}
    /\ running' = running \ {t}
    /\ UNCHANGED <<config, descriptors, map_image_width, map_image_height, pc, i, pool_workers,
                   taskqueue, results_list, log_file, owner>>

\* ---------------------------------------------------------- the report

\* Mutant of IsSuccess: a zero-byte record counts as a success.
IsSuccessAny(item) == item[2] >= 0

\* The test of line 165 on one record: image_size > 0.
IsSuccess(item) == item[2] > 0

RECURSIVE SuccessCount(_)
\* success_count after the loop of lines 161-167.
SuccessCount(list) ==
    IF list = <<>> THEN 0
    ELSE SuccessCount(Tail(list)) + (IF IsSuccess(Head(list)) THEN 1 ELSE 0)

RECURSIVE TotalSeconds(_)
\* total_seconds after the loop of lines 161-167.
TotalSeconds(list) ==
    IF list = <<>> THEN 0
    ELSE TotalSeconds(Tail(list)) + (IF IsSuccess(Head(list)) THEN Head(list)[1] ELSE 0)

\* Mutant of AvgSeconds: the total is divided by the number of requests.
AvgSecondsOverRequests(list) ==
    IF SuccessCount(list) > 0
    THEN [num |-> TotalSeconds(list), den |-> requests]
    ELSE [num |-> 0, den |-> 1]

\* avg_seconds of lines 169-172, as the fraction num / den.
AvgSeconds(list) ==
    IF SuccessCount(list) > 0
    THEN [num |-> TotalSeconds(list), den |-> SuccessCount(list)]
    ELSE [num |-> 0, den |-> 1]

\* log_entries as built by lines 148-180.
LogEntries(list) ==
    << <<"WMS Stress Test Results">>,
       <<>>,
       <<"Concurrent processes", processes>>,
       <<"Map image size",
         ToString(map_image_width) \o " x " \o ToString(map_image_height), "pixels">>,
       <<>>,
       <<"WMS requests", requests>>,
       <<>>,
       <<"Successful requests", SuccessCount(list)>>,
       <<"Average time", AvgSeconds(list), "seconds">>,
       <<"Failed requests", requests - SuccessCount(list)>>,
       <<>>,
       <<"Time_seconds", "Image_bytes", "URL">> >>

\* Mutant of WriteReport: aggregation takes the records out of the collection.
WriteReportDrains ==
    /\ pc = "report"
    /\ log_file' = LogEntries(results_list) \o results_list
    /\ results_list' = <<>>
    /\ pc' = "done"
    /\ UNCHANGED <<config, descriptors, map_image_width, map_image_height, i, pool_workers,
                   taskqueue, running, fetched, owner>>

\* Lines 145-189: compute the statistics from results_list and write the
\* header rows, then one row per record of results_list, to the CSV file.
WriteReport ==
    /\ pc = "report"
    /\ log_file' = LogEntries(results_list) \o results_list
    /\ pc' = "done"
    /\ UNCHANGED <<config, descriptors, map_image_width, map_image_height, i, pool_workers,
                   taskqueue, running, results_list, fetched, owner>>

\* ------------------------------------------------------- specification

Worker ==
    \/ Dispatch
    \/ \E t \in running :
          \/ \E d \in Durations :
                \/ \E image_len \in ImageLens : FetchReturns(t, d, image_len)
                \/ FetchRaisesURLError(t, d)
          \/ FetchRaisesOther(t)

Driver ==
    \/ CreatePool
    \/ CreatePoolRaises
    \/ Submit
    \/ SubmitRaises
    \/ ClosePool
    \/ JoinPool
    \/ WriteReport

Next == Driver \/ Worker

Spec == Init /\ [][Next]_vars

\* The driver alone, from the entry of main() through one iteration of the
\* loop of lines 104-140, over the sampler's parameter settings.
SamplerInit ==
    /\ requests = 1
    /\ processes = 1
    /\ \E p \in SamplerParameters : Start(p)

SamplerNext == CreatePool \/ Submit

SamplerSpec == SamplerInit /\ [][SamplerNext]_vars

\* A deterministic fetch: what the server does for a URL depends on the URL
\* alone.  Extents east of the origin and south of the equator are served in
\* 0.25 s, extents east and north are answered with an HTTP error after
\* 1.25 s, and for extents west of the origin the status line is malformed.
StubFetch(url) ==
    IF url.BBOX[1] < 0 THEN [kind |-> "other", d |-> 0, image_len |-> 0]
    ELSE IF url.BBOX[2] < 0 THEN [kind |-> "ok", d |-> 250000, image_len |-> 512]
    ELSE [kind |-> "URLError", d |-> 1250000, image_len |-> 0]

\* get_map once the deterministic fetch of job t has ended.
StubbedFetch ==
    \E t \in running :
        LET o == StubFetch(t.url)
        IN CASE o.kind = "ok" -> FetchReturns(t, o.d, o.image_len)
             [] o.kind = "URLError" -> FetchRaisesURLError(t, o.d)
             [] OTHER -> FetchRaisesOther(t)

\* The run against the deterministic fetch, for every request count, every
\* worker count of at least 1 and every sequence of drawn URLs.
StubInit ==
    /\ requests \in 0..MaxRequests
    /\ processes \in 1..MaxProcesses
    /\ \E p \in StubParameters : Start(p)

StubNext ==
    \/ CreatePool
    \/ Submit
    \/ ClosePool
    \/ JoinPool
    \/ WriteReport
    \/ Dispatch
    \/ StubbedFetch

StubSpec == StubInit /\ [][StubNext]_vars

\* The whole run over the parameter settings whose maps do not fit their
\* boxes, with at least one worker, under the fairness of FairSpec.
DegenerateInit ==
    /\ requests \in 0..MaxDegenerateRequests
    /\ processes \in 1..MaxProcesses
    /\ \E p \in DegenerateParameters : Start(p)

DegenerateDriver ==
    \/ CreatePool
    \/ Submit
    \/ ClosePool
    \/ JoinPool
    \/ WriteReport

DegenerateNext == DegenerateDriver \/ Worker

DegenerateSpec ==
    /\ DegenerateInit
    /\ [][DegenerateNext]_vars
    /\ WF_vars(DegenerateDriver)
    /\ WF_vars(Worker)

\* Every fetch returns or raises in the end, a free worker takes a queued job,
\* and the driver process keeps running.
FairSpec == Spec /\ WF_vars(Driver) /\ WF_vars(Worker)

\* ------------------------------------------------------------- claims

\* Jobs whose get_map call has ended, normally or by an exception.
FinishedJobs == {f.job : f \in fetched}

\* Positions of results_list holding a record appended by job j.
RecordsOf(j) == {k \in DOMAIN results_list : owner[k].job = j}

\* The driver is past pool.join().
Joined == pc \in {"report", "done"}

\* C1: after the pool has been closed and joined, results_list holds exactly
\* N records, one per submitted job, whatever way each fetch ended.
C1_ExactlyOneRecordPerTask ==
    Joined =>
        /\ Len(results_list) = requests
        /\ \A j \in 1..requests : Cardinality(RecordsOf(j)) = 1

\* C2: the driver reads results_list (to compute statistics and write rows)
\* only when no submitted job is still queued or running and all N jobs have
\* ended, so the report is never built from a partial result.
C2_AggregationAfterAllTasks ==
    (Joined \/ log_file # NoFile) =>
        /\ taskqueue = <<>>
        /\ running = {}
        /\ i = requests
        /\ FinishedJobs = 1..requests

\* C2 witness: the driver is about to aggregate a run in which more jobs
\* were submitted than there are workers.
C2_Witness == pc = "report" /\ requests > processes /\ requests >= 2

\* C3: a job whose fetch failed (URLError, or any other failure of the
\* request such as a timeout or a malformed response) has appended exactly
\* one record, and that record has byte length 0.
C3_FailureAppendsZeroRecord ==
    \A f \in fetched :
        f.kind # "ok" =>
            /\ Cardinality(RecordsOf(f.job)) = 1
            /\ \A k \in RecordsOf(f.job) : results_list[k][2] = 0

\* C5: at every moment at most P jobs are executing, P the configured
\* worker count; the other submitted jobs wait in the queue.
C5_AtMostPRunning == Cardinality(running) <= processes

\* C5 witness: all P workers are busy and a further job waits (N > P).
C5_Witness ==
    /\ processes >= 1
    /\ Cardinality(running) = processes
    /\ taskqueue # <<>>
    /\ requests > processes

\* C6: the elapsed seconds stored in every record equal the wall-clock time
\* between the start timestamp and the end of that job's fetch.
C6_ElapsedIsWallClock ==
    \A k \in DOMAIN results_list : results_list[k][1] = owner[k].wall

\* Some job's fetch has failed, in a way get_map handles or not.
SomeFetchFailed == \E f \in fetched : f.kind # "ok"

\* A step in which a job's fetch fails.
FetchFailsStep ==
    \E f \in fetched' \ fetched : f.kind # "ok"

\* C4: a failing fetch never stops the run.  The step in which a fetch fails
\* removes only the failing job from the running jobs and leaves the queued
\* jobs, the other running jobs, the pool's workers and the driver as they
\* are; and once a fetch has failed, the run still reaches the state where
\* every submitted job has ended, the pool has all its workers and the report
\* is written.
C4_FailureNeverStopsRun ==
    /\ [][FetchFailsStep =>
            /\ taskqueue' = taskqueue
            /\ running' \subseteq running
            /\ Cardinality(running') = Cardinality(running) - 1
            /\ pool_workers' = pool_workers
            /\ pc' = pc]_vars
    /\ [](SomeFetchFailed =>
            <>(/\ pc = "done"
               /\ log_file # NoFile
               /\ FinishedJobs = 1..requests
               /\ pool_workers = processes))

\* C4 witness: a fetch has failed with an exception get_map does not catch
\* while another job is in flight and a third is still queued.
C4_Witness ==
    /\ \E f \in fetched : f.kind = "other"
    /\ running # {}
    /\ taskqueue # <<>>

\* A job has been handed to the pool.
Dispatched == i > 0 \/ taskqueue # <<>> \/ running # {} \/ fetched # {}

\* The run has completed with a report.
Completed == pc = "done" \/ log_file # NoFile

\* C7 as stated: with an empty bounding-box table, a non-positive request
\* count or a non-positive worker count, no run dispatches work or completes
\* with a report.
C7_ConfigErrorsFailFast ==
    (max_bounding_boxes = <<>> \/ requests <= 0 \/ processes <= 0) =>
        (~Dispatched /\ ~Completed)

\* C7 amended: a non-positive worker count, or an empty bounding-box table
\* together with a positive request count, makes the run fail before any job
\* is dispatched and it never completes with a report; a non-positive
\* request count is no error: nothing is dispatched, and with a positive
\* worker count the run completes with a report that has no data row.
C7_ConfigErrorsAmended ==
    /\ (processes <= 0 \/ (max_bounding_boxes = <<>> /\ requests > 0)) =>
           (~Dispatched /\ ~Completed /\ pc \in {"start", "loop", "crashed"})
    /\ requests <= 0 => ~Dispatched
    /\ (requests <= 0 /\ processes >= 1 /\ pc = "done") =>
           (Len(log_file) = 12 /\ results_list = <<>>)

\* C7 witness: the driver has ended with a traceback on an empty table.
C7_Witness ==
    pc = "crashed" /\ max_bounding_boxes = <<>> /\ requests > 0 /\ processes >= 1

\* Fields of the report's header rows.
ReportSuccessCount == log_file[8][2]
ReportAvgSeconds == log_file[9][2]
ReportFailureCount == log_file[10][2]

\* Positions of results_list whose record has byte length > 0.
SuccessfulRecords == {k \in DOMAIN results_list : results_list[k][2] > 0}

\* C8: in every report success_count is the number of records with byte
\* length > 0, failure_count is N - success_count, so the two add up to N;
\* when every fetch failed failure_count is N, and when every fetch
\* succeeded success_count is N.
C8_Counts ==
    pc = "done" =>
        /\ ReportSuccessCount = Cardinality(SuccessfulRecords)
        /\ ReportFailureCount = requests - ReportSuccessCount
        /\ ReportSuccessCount + ReportFailureCount = requests
        /\ (\A f \in fetched : f.kind # "ok") => ReportFailureCount = requests
        /\ (\A f \in fetched : f.kind = "ok") => ReportSuccessCount = requests

\* C8 witness: a report over a run with a successful fetch, a fetch that
\* raised URLError and nothing else.
C8_Witness ==
    /\ pc = "done"
    /\ \E f \in fetched : f.kind = "ok"
    /\ \E f \in fetched : f.kind = "URLError"
    /\ \A f \in fetched : f.kind # "other"

RECURSIVE SumElapsed(_)
\* Sum of the elapsed seconds of the records at the positions in S.
SumElapsed(S) ==
    IF S = {} THEN 0
    ELSE LET k == CHOOSE x \in S : TRUE
         IN results_list[k][1] + SumElapsed(S \ {k})

\* C9 as stated: average_seconds is the sum of the elapsed seconds of the
\* successful records divided by success_count, and it is 0 exactly when
\* success_count is 0.
C9_AverageZeroIffNoSuccess ==
    pc = "done" =>
        /\ ReportSuccessCount > 0 =>
               ReportAvgSeconds.num * ReportSuccessCount
                   = SumElapsed(SuccessfulRecords) * ReportAvgSeconds.den
        /\ (ReportAvgSeconds.num = 0) <=> (ReportSuccessCount = 0)

\* C9 amended: average_seconds is the sum of the elapsed seconds of the
\* successful records divided by success_count when success_count > 0, and
\* 0 when success_count is 0; it is not 0 exactly when some successful
\* record has elapsed seconds other than 0.
C9_AverageAmended ==
    pc = "done" =>
        /\ ReportAvgSeconds.den > 0
        /\ ReportSuccessCount > 0 =>
               ReportAvgSeconds.num * ReportSuccessCount
                   = SumElapsed(SuccessfulRecords) * ReportAvgSeconds.den
        /\ ReportSuccessCount = 0 => ReportAvgSeconds.num = 0
        /\ (ReportAvgSeconds.num # 0) <=>
               (\E k \in SuccessfulRecords : results_list[k][1] # 0)

\* C9 witness: a report whose successful records all have elapsed seconds
\* 0 beside a failed fetch, so the average is 0 with success_count > 0.
C9_Witness ==
    /\ pc = "done"
    /\ SuccessfulRecords # {}
    /\ \A k \in SuccessfulRecords : results_list[k][1] = 0
    /\ SomeFetchFailed

\* C10: the report of a completed run is the twelve header rows in the
\* order title, blank, worker count, image dimensions, blank, request count,
\* blank, success count, average seconds, failure count, blank, column
\* headers, followed by exactly N data rows, one per submitted job.
C10_ReportRows ==
    pc = "done" =>
        /\ Len(log_file) = 12 + requests
        /\ log_file[1] = <<"WMS Stress Test Results">>
        /\ log_file[2] = <<>>
        /\ log_file[3] = <<"Concurrent processes", processes>>
        /\ log_file[4][1] = "Map image size"
        /\ log_file[5] = <<>>
        /\ log_file[6] = <<"WMS requests", requests>>
        /\ log_file[7] = <<>>
        /\ log_file[8][1] = "Successful requests"
        /\ log_file[9][1] = "Average time"
        /\ log_file[10][1] = "Failed requests"
        /\ log_file[11] = <<>>
        /\ log_file[12] = <<"Time_seconds", "Image_bytes", "URL">>
        /\ \A j \in 1..requests :
               \E k \in RecordsOf(j) : log_file[12 + k] = results_list[k]

\* ------------------------------------------------- claims on the sampler

\* The box a descriptor was drawn in.
BoxOf(desc) == max_bounding_boxes[desc.max_bbox_num]

\* The map of a descriptor is no wider and no higher than its box.
Fits(desc) ==
    /\ desc.map_width <= BoxOf(desc)[3] - BoxOf(desc)[1]
    /\ desc.map_height <= BoxOf(desc)[4] - BoxOf(desc)[2]

\* The extent of a descriptor lies inside its box.
Inside(desc) ==
    /\ BoxOf(desc)[1] <= desc.left
    /\ desc.right <= BoxOf(desc)[3]
    /\ BoxOf(desc)[2] <= desc.bottom
    /\ desc.top <= BoxOf(desc)[4]

\* C11: for every generated request, in tile mode and in non-tile mode,
\* whenever the map width and height fit inside the chosen bounding box the
\* requested extent lies entirely inside that box.
C11_ExtentInsideBox ==
    \A j \in DOMAIN descriptors :
        Fits(descriptors[j]) => Inside(descriptors[j])

\* C11 restricted to non-tile mode, where no snapping takes place.
C11_NonTileInsideBox ==
    ~map_tiles => C11_ExtentInsideBox

UrlOf(j) == MapUrl(descriptors[j])

\* The record the deterministic fetch yields for a URL.
StubRecord(url) ==
    <<StubFetch(url).d % MicrosPerSecond, StubFetch(url).image_len, url>>

\* The jobs of the URL sequence whose record is r, were each job to append
\* the record of its URL once (a fetch that ends in an exception get_map
\* does not catch appends none).
JobsYielding(r) ==
    {j \in 1..requests : StubFetch(UrlOf(j)).kind # "other" /\ StubRecord(UrlOf(j)) = r}

\* C13: with a deterministic fetch, the multiset of records in results_list
\* after the run is determined by the sequence of the N request URLs alone:
\* each record occurs as often as the URL sequence yields it, for every
\* worker count and every interleaving of the workers.
C13_RecordsDeterminedByUrls ==
    Joined =>
        \A r \in {results_list[k] : k \in DOMAIN results_list}
                  \cup {StubRecord(UrlOf(j)) : j \in 1..requests} :
            Cardinality({k \in DOMAIN results_list : results_list[k] = r})
                = Cardinality(JobsYielding(r))

\* C13 witness: a run on two or more workers whose records arrived in
\* another order than the URLs were submitted in, with the same URL
\* requested twice.
C13_Witness ==
    /\ Joined
    /\ processes >= 2
    /\ Len(owner) >= 2
    /\ owner[1].job > owner[2].job
    /\ \E j1, j2 \in 1..requests : j1 # j2 /\ UrlOf(j1) = UrlOf(j2)

\* ------------------------------------------------ claims on termination

\* The run has completed: all N jobs have ended, the join has returned and
\* the report is written.
RunCompleted ==
    /\ pc = "done"
    /\ FinishedJobs = 1..requests
    /\ taskqueue = <<>> /\ running = {}
    /\ log_file # NoFile

\* The report, once written, is not written again.
ReportWrittenOnce == [][log_file # NoFile => log_file' = log_file]_vars

\* C14 as stated: if every fetch returns or fails in the end, then under
\* fair scheduling every run completes in the end and writes the report
\* exactly once.
C14_EveryRunCompletes ==
    /\ <>RunCompleted
    /\ ReportWrittenOnce

\* The pool can be created and a bounding box can be drawn for every request.
UsableParameters ==
    /\ processes >= 1
    /\ max_bounding_boxes # <<>> \/ requests <= 0

\* C14 amended: if every fetch returns or fails in the end, then under fair
\* scheduling every run with at least one worker and, when there is a
\* request to make, a bounding box to draw, completes in the end and writes
\* the report exactly once.
C14_UsableRunCompletes ==
    /\ UsableParameters => <>RunCompleted
    /\ ReportWrittenOnce

\* C14 witness: a completed run on two workers in which a fetch ended in an
\* exception get_map does not catch.
C14_Witness ==
    /\ RunCompleted
    /\ processes >= 2
    /\ requests >= 2
    /\ \E f \in fetched : f.kind = "other"

\* ----------------------------------------------- claims on single fetch

\* Jobs waiting in the pool's queue, and jobs inside get_map.
QueuedJobs == {taskqueue[k].job : k \in DOMAIN taskqueue}
RunningJobs == {t.job : t \in running}

\* C15: each job performs its fetch exactly once.  A submitted job is
\* waiting, or in its one fetch, or has ended its one fetch, never two of
\* these; no job is queued or running twice; a job that has ended has ended
\* one way only and is never requested again; and after the join the number
\* of fetches made is exactly N.
C15_FetchedExactlyOnce ==
    /\ QueuedJobs \cup RunningJobs \cup FinishedJobs = 1..i
    /\ QueuedJobs \cap RunningJobs = {}
    /\ QueuedJobs \cap FinishedJobs = {}
    /\ RunningJobs \cap FinishedJobs = {}
    /\ Cardinality(QueuedJobs) = Len(taskqueue)
    /\ Cardinality(RunningJobs) = Cardinality(running)
    /\ Cardinality(fetched) = Cardinality(FinishedJobs)
    /\ Joined => (Cardinality(fetched) = requests /\ FinishedJobs = 1..requests)

\* C15 witness: after the join of a run in which one fetch succeeded and
\* another raised URLError.
C15_Witness ==
    /\ Joined
    /\ \E f \in fetched : f.kind = "ok"
    /\ \E f \in fetched : f.kind = "URLError"

\* ------------------------------------------- claims on degenerate samples

\* C16: a sample whose map is wider or higher than the chosen box, so that
\* the range drawn from is inverted, never crashes the batch: the driver
\* never ends with a traceback, it submits all N jobs, and the run completes.
C16_DegenerateSampleCompletes ==
    /\ [](pc # "crashed")
    /\ [](\A j \in DOMAIN descriptors : ~Fits(descriptors[j]))
    /\ <>(RunCompleted /\ i = requests /\ Len(descriptors) = requests)

\* C16 witness: a completed run of two or more jobs, none of whose maps fits
\* its box, one of them drawn west of the box.
C16_Witness ==
    /\ RunCompleted
    /\ requests >= 2
    /\ \A j \in DOMAIN descriptors : ~Fits(descriptors[j])
    /\ \E j \in DOMAIN descriptors : descriptors[j].left < BoxOf(descriptors[j])[1]

\* ------------------------------------------ claims on where a step runs

\* C17 as stated: a job's request parameters are sampled and its URL is built
\* inside the worker that runs it, never by the driver; so whenever a job has
\* its parameters, a worker has taken it.
C17_AllStepsInWorker ==
    \A j \in DOMAIN descriptors : j \in RunningJobs \cup FinishedJobs

\* The queue entry t carries the URL built from the parameters the driver
\* drew for its job.
CarriesDriverUrl(t) ==
    /\ t.job \in DOMAIN descriptors
    /\ t.url = MapUrl(descriptors[t.job])

\* C17 amended: the driver samples the parameters and builds the URL of every
\* job in its loop, before the job is handed to the pool; the fetch alone
\* runs in a worker.  The parameters drawn are those of exactly the jobs
\* submitted so far; every waiting job and every job inside a worker already
\* carries the URL the driver built; no job is inside two workers; and the
\* URL of every record is the one the driver built for the job that wrote it.
C17_DriverSamplesWorkerFetches ==
    /\ Len(descriptors) = i
    /\ \A k \in DOMAIN taskqueue : CarriesDriverUrl(taskqueue[k])
    /\ \A t \in running : CarriesDriverUrl(t)
    /\ \A t1, t2 \in running : t1.job = t2.job => t1 = t2
    /\ \A k \in DOMAIN results_list :
           /\ owner[k].job \in DOMAIN descriptors
           /\ results_list[k][3] = MapUrl(descriptors[owner[k].job])

\* C17 witness: one job waits in the queue with its URL built, taken by no
\* worker yet, while an earlier job has already been fetched and recorded.
C17_Witness ==
    /\ taskqueue # <<>>
    /\ CarriesDriverUrl(Head(taskqueue))
    /\ Head(taskqueue).job \notin RunningJobs \cup FinishedJobs
    /\ results_list # <<>>

\* --------------------------------------- claims on the result collection

\* C18: the result collection is append-only.  In every step its length does
\* not decrease and the records it held before the step are still there, in
\* place and unchanged, after it; this holds for the steps of the workers
\* and for the driver's aggregation and report.
C18_AppendOnly ==
    [][/\ Len(results_list') >= Len(results_list)
       /\ SubSeq(results_list', 1, Len(results_list)) = results_list]_vars

\* C18 witness: the report has been written from a collection of two or more
\* records, and the collection still holds them.
C18_Witness ==
    /\ pc = "done"
    /\ Len(results_list) >= 2
    /\ log_file = LogEntries(results_list) \o results_list

\* ------------------------------------------- claims on the configuration

\* The image size a URL asks for is the current image size.
AsksCurrentImageSize(url) ==
    /\ url.WIDTH = map_image_width
    /\ url.HEIGHT = map_image_height

\* C19: from the submission of the first job on, no step of the driver or of
\* a worker changes a configuration value (request count, worker count, tile
\* flag, level and width ranges, bounding-box table, image size); every job
\* waiting, running or recorded asks for the current image size; and the
\* report prints the worker count the pool ran with and the image size that
\* every recorded URL asked for.
C19_ConfigurationFixed ==
    /\ [][i >= 1 => /\ config' = config
                    /\ map_image_width' = map_image_width
                    /\ map_image_height' = map_image_height]_vars
    /\ [](/\ \A k \in DOMAIN taskqueue : AsksCurrentImageSize(taskqueue[k].url)
          /\ \A t \in running : AsksCurrentImageSize(t.url)
          /\ \A k \in DOMAIN results_list : AsksCurrentImageSize(results_list[k][3]))
    /\ [](pc = "done" =>
             /\ log_file[3] = <<"Concurrent processes", pool_workers>>
             /\ pool_workers = processes
             /\ \A k \in DOMAIN results_list :
                    log_file[4][2] = ToString(results_list[k][3].WIDTH) \o " x "
                                         \o ToString(results_list[k][3].HEIGHT))

\* C19 witness: the report of a tile-mode run, whose image size main() set
\* to the tile size before the pool was created, with two or more records.
C19_Witness ==
    /\ pc = "done"
    /\ map_tiles
    /\ Len(results_list) >= 2
    /\ log_file[4][2] = "256 x 256"
    /\ pool_workers = MaxProcesses

\* ------------------------------------- claims on the header and the rows

\* The data rows of the report: the rows after the twelve header rows.
DataRows == {k \in DOMAIN log_file : k > 12}

\* C20: in every report the failure count of the header is the number of
\* data rows whose byte length is 0, and the success count is the number of
\* data rows whose byte length is greater than 0, whatever the outcomes of
\* the fetches were.
C20_HeaderCountsMatchRows ==
    pc = "done" =>
        /\ ReportFailureCount = Cardinality({k \in DataRows : log_file[k][2] = 0})
        /\ ReportSuccessCount = Cardinality({k \in DataRows : log_file[k][2] > 0})

=============================================================================
